---- MODULE Spec2Model ----
(***************************************************************************)
(* Model of src/main.py: the route resampler (get_utm_crs,                 *)
(* interpolate_points, attach_elevation) and the driver main().            *)
(*                                                                         *)
(* Numbers.  The program works on floats; the model works on integers.     *)
(* A coordinate is a whole number of degrees, and the projection maps one  *)
(* degree to one planar unit, so that forward and inverse transforms are   *)
(* exact.  Route steps and intervals are taken from sets in which every    *)
(* segment length is a whole number and every sample falls on a grid       *)
(* point (multiples of 5, with 3-4-5 diagonals), so floor(L / interval)    *)
(* and the linear interpolation are computed without rounding.             *)
(***************************************************************************)
EXTENDS Integers, Sequences, FiniteSets, TLC

VARIABLES pc, api_key, html, interval, coords3, points, rows, err,
          csv_file, html_file, calls, lon, lat, utm_crs

vars == <<pc, api_key, html, interval, coords3, points, rows, err,
          csv_file, html_file, calls, lon, lat, utm_crs>>

\* ------------------------------- bounds ---------------------------------
\* longest route geometry (number of vertices) that get_route hands over
MaxVerts == 3
\* largest interval, in multiples of 5 units
MaxIntervalSteps == 3
\* longest list of resampled points handed to attach_elevation directly
MaxPoints == 2
\* longest original geometry handed to attach_elevation directly
MaxAttachVerts == 2

\* ------------------------------ Python values ---------------------------
None == "None"

\* a path at which nothing has been written (a written file has lines)
NoFile == <<>>

\* math.floor(a / b) for b # 0 (Python floors towards minus infinity)
FloorDiv(a, b) == IF b > 0 THEN a \div b ELSE (0 - a) \div (0 - b)

\* floor of the square root (math.hypot on the integer grid)
ISqrt(n) == CHOOSE r \in 0..n : r * r <= n /\ (r + 1) * (r + 1) > n

\* --------------------------- get_utm_crs --------------------------------
\* zone = int((lon + 180) // 6 + 1)
utm_zone(lo) == ((lo + 180) \div 6) + 1

\* epsg = 32700 + zone if south else 32600 + zone
get_utm_crs(lo, la) ==
    LET zone == utm_zone(lo)
        south == la < 0
    IN  IF south THEN 32700 + zone ELSE 32600 + zone

\* ---------------- pyproj Transformer for a UTM-style CRS ----------------
\* The CRS is its EPSG code: zone in the last two digits, hemisphere in the
\* hundreds.  Easting is measured from the zone's central meridian plus a
\* false easting, northing from the equator plus, in the south, a false
\* northing.
FalseEasting == 500000
FalseNorthing == 10000000
CrsZone(crs) == crs % 100
CrsSouth(crs) == crs >= 32700
CentralMeridian(crs) == 6 * CrsZone(crs) - 183
NorthingOrigin(crs) == IF CrsSouth(crs) THEN FalseNorthing ELSE 0

\* Transformer.from_crs("EPSG:4326", utm_crs, always_xy=True).transform
to_utm(crs, lo, la) ==
    <<FalseEasting + (lo - CentralMeridian(crs)), NorthingOrigin(crs) + la>>

\* Transformer.from_crs(utm_crs, "EPSG:4326", always_xy=True).transform
to_wgs(crs, x, y) ==
    <<(x - FalseEasting) + CentralMeridian(crs), y - NorthingOrigin(crs)>>

\* ------------------------- shapely LineString ---------------------------
\* length of the segment from planar point p to planar point q
SegLen(p, q) ==
    ISqrt((q[1] - p[1]) * (q[1] - p[1]) + (q[2] - p[2]) * (q[2] - p[2]))

\* line.length: the sum of the segment lengths
RECURSIVE LengthFrom(_, _)
LengthFrom(line, k) ==
    IF k >= Len(line) THEN 0
    ELSE SegLen(line[k], line[k + 1]) + LengthFrom(line, k + 1)

line_length(line) == LengthFrom(line, 1)

\* line.interpolate(dist) for 0 <= dist: walk the segments from the start,
\* interpolate linearly inside the segment that contains dist, and stop at
\* the last vertex when dist reaches the end of the line.
RECURSIVE InterpolateFrom(_, _, _)
InterpolateFrom(line, k, d) ==
    IF k >= Len(line) THEN line[Len(line)]
    ELSE LET p == line[k]
             q == line[k + 1]
             seg == SegLen(p, q)
         IN  IF d < seg
             THEN <<p[1] + ((q[1] - p[1]) * d) \div seg,
                    p[2] + ((q[2] - p[2]) * d) \div seg>>
             ELSE InterpolateFrom(line, k + 1, d - seg)

\* slip of the walk: the length of the segments passed is not deducted
RECURSIVE InterpolateNoCarry(_, _, _)
InterpolateNoCarry(line, k, d) ==
    IF k >= Len(line) THEN line[Len(line)]
    ELSE LET p == line[k]
             q == line[k + 1]
             seg == SegLen(p, q)
         IN  IF d < seg
             THEN <<p[1] + ((q[1] - p[1]) * d) \div seg,
                    p[2] + ((q[2] - p[2]) * d) \div seg>>
             ELSE InterpolateNoCarry(line, k + 1, d)

line_interpolate_no_carry(line, d) == InterpolateNoCarry(line, 1, d)

line_interpolate(line, d) == InterpolateFrom(line, 1, d)

\* ------------------------- interpolate_points ---------------------------
\* slips of the count: the "+ 1" forgotten; rounding up instead of down
num_points_without_start(total_len, interval_m) ==
    FloorDiv(total_len, interval_m)

num_points_rounded_up(total_len, interval_m) ==
    (0 - FloorDiv(0 - total_len, interval_m)) + 1

\* num_points = math.floor(total_len / interval_m) + 1
num_points(total_len, interval_m) == FloorDiv(total_len, interval_m) + 1

\* slip of the distance: the loop index taken from 1
sample_dist_from_one(i, interval_m) == (i + 1) * interval_m

\* dist = i * interval_m
sample_dist(i, interval_m) == i * interval_m

\* one pass of the loop body: (dist, lon, lat) of sample i
sample_point(line, crs, i, interval_m) ==
    LET dist == sample_dist(i, interval_m)
        p_utm == line_interpolate(line, dist)
        ll == to_wgs(crs, p_utm[1], p_utm[2])
    IN  <<dist, ll[1], ll[2]>>

\* slip: a line constructor that accepts a single point
linestring_accepts_all(cs) == FALSE

\* LineString(...) refuses a coordinate sequence of exactly one point
linestring_rejects(cs) == Len(cs) = 1

\* interpolate_points(coords3, interval_m): the error raised, or the list
interpolate_points(cs, interval_m) ==
    IF Len(cs) = 0 THEN [err |-> "IndexError", pts |-> <<>>]
    ELSE LET crs == get_utm_crs(cs[1][1], cs[1][2])
             line == [k \in 1..Len(cs) |-> to_utm(crs, cs[k][1], cs[k][2])]
         IN  IF linestring_rejects(cs)
             THEN [err |-> "LineStringError", pts |-> <<>>]
             ELSE IF interval_m = 0
             THEN [err |-> "ZeroDivisionError", pts |-> <<>>]
             ELSE LET n == num_points(line_length(line), interval_m)
                  IN  [err |-> None,
                       pts |-> [j \in 1..n |->
                                 sample_point(line, crs, j - 1, interval_m)]]

\* --------------------------- attach_elevation ---------------------------
\* squared Euclidean distance in degrees between (lo, la) and a vertex
Dist2(lo, la, v) ==
    (v[1] - lo) * (v[1] - lo) + (v[2] - la) * (v[2] - la)

\* slip of the lookup: the first vertex whatever the query
tree_query_first(cs, lo, la) == {1}

\* tree.query([lon, lat]): the indices the k-d tree may return, i.e. those
\* of the vertices at the smallest distance (which of several equally near
\* vertices is returned is left to the index)
tree_query(cs, lo, la) ==
    {j \in 1..Len(cs) :
        \A k \in 1..Len(cs) : Dist2(lo, la, cs[j]) <= Dist2(lo, la, cs[k])}

\* slip of the record: longitude and latitude left in input order
out_row_unswapped(p, cs, idx) == <<p[1], p[2], p[3], cs[idx][3]>>

\* out.append((dist, lat, lon, float(elevs[idx])))
out_row(p, cs, idx) == <<p[1], p[3], p[2], cs[idx][3]>>

\* attach_elevation(points, coords3), coords3 not empty: the lists it may
\* return, one for every way the index resolves exact ties
attach_elevation(ps, cs) ==
    {[i \in 1..Len(ps) |-> out_row(ps[i], cs, f[i])] :
        f \in {g \in [1..Len(ps) -> 1..Len(cs)] :
                 \A i \in 1..Len(ps) : g[i] \in tree_query(cs, ps[i][2], ps[i][3])}}

\* ------------------------------ inputs ----------------------------------
\* first vertices: southern and northern hemisphere, the equator, and a
\* vertex next to a zone boundary
Starts == {<<131, -12>>, <<3, 50>>, <<-75, 0>>}

\* steps from one vertex to the next (all of whole length 0, 5 or 10)
Steps == {<<0, 0>>, <<5, 0>>, <<-5, 0>>, <<0, 5>>, <<0, -5>>,
          <<3, 4>>, <<-4, 3>>, <<10, 0>>, <<6, -8>>}

\* elevation of the k-th vertex of a route
ElevationAt(k) == 10 * k

\* the routes of exactly n vertices
RECURSIVE Routes(_)
Routes(n) ==
    IF n = 0 THEN {<<>>}
    ELSE IF n = 1 THEN {<<(<<s[1], s[2], ElevationAt(1)>>)>> : s \in Starts}
    ELSE {Append(g, <<g[n - 1][1] + d[1], g[n - 1][2] + d[2], ElevationAt(n)>>) :
            g \in Routes(n - 1), d \in Steps}

\* what get_route may hand over: [[lon, lat, elev], ...]
Geometries == UNION {Routes(n) : n \in 0..MaxVerts}

\* --interval values (type=float): negative, zero and positive
Intervals == {5 * k : k \in -2..MaxIntervalSteps}

\* ------------------- get_utm_crs called on its own ----------------------
InitCrs ==
    /\ pc = "get_utm_crs"
    /\ lon \in -180..180
    /\ lat \in -90..90
    /\ utm_crs = None
    /\ api_key = None /\ html = None /\ interval = 0 /\ coords3 = <<>>
    /\ points = <<>> /\ rows = <<>> /\ err = None
    /\ csv_file = NoFile /\ html_file = NoFile /\ calls = <<>>

CallGetUtmCrs ==
    /\ pc = "get_utm_crs"
    /\ utm_crs' = get_utm_crs(lon, lat)
    /\ pc' = "get_utm_crs_returned"
    /\ UNCHANGED <<api_key, html, interval, coords3, points, rows, err,
                   csv_file, html_file, calls, lon, lat>>

NextCrs == CallGetUtmCrs

SpecCrs == InitCrs /\ [][NextCrs]_vars

\* ---------------- interpolate_points called on its own ------------------
InitInterp ==
    /\ pc = "interpolate_points"
    /\ coords3 \in Geometries
    /\ interval \in Intervals
    /\ points = <<>> /\ err = None
    /\ api_key = None /\ html = None /\ rows = <<>>
    /\ csv_file = NoFile /\ html_file = NoFile /\ calls = <<>>
    /\ lon = 0 /\ lat = 0 /\ utm_crs = None

CallInterpolatePoints ==
    /\ pc = "interpolate_points"
    /\ LET r == interpolate_points(coords3, interval)
       IN  /\ err' = r.err
           /\ points' = r.pts
    /\ pc' = "interpolate_points_returned"
    /\ UNCHANGED <<api_key, html, interval, coords3, rows,
                   csv_file, html_file, calls, lon, lat, utm_crs>>

NextInterp == CallInterpolatePoints

SpecInterp == InitInterp /\ [][NextInterp]_vars

\* ----------------- attach_elevation called on its own -------------------
\* vertices of the original geometry; two of them share a position
AttachVertices == {<<0, 0, 10>>, <<2, 0, 20>>, <<2, 0, 30>>, <<0, 1, 40>>}

\* non-empty original geometries
AttachGeometries ==
    UNION {[1..n -> AttachVertices] : n \in 1..MaxAttachVerts}

\* resampled points (dist, lon, lat), in any order
AttachPoints == {<<d, lo, la>> : d \in {0, 5}, lo \in {0, 1, 2}, la \in {0, 1}}

PointLists == UNION {[1..n -> AttachPoints] : n \in 0..MaxPoints}

InitAttach ==
    /\ pc = "attach_elevation"
    /\ coords3 \in AttachGeometries
    /\ points \in PointLists
    /\ rows = <<>> /\ err = None
    /\ api_key = None /\ html = None /\ interval = 0
    /\ csv_file = NoFile /\ html_file = NoFile /\ calls = <<>>
    /\ lon = 0 /\ lat = 0 /\ utm_crs = None

CallAttachElevation ==
    /\ pc = "attach_elevation"
    /\ \E r \in attach_elevation(points, coords3) : rows' = r
    /\ pc' = "attach_elevation_returned"
    /\ UNCHANGED <<api_key, html, interval, coords3, points, err,
                   csv_file, html_file, calls, lon, lat, utm_crs>>

NextAttach == CallAttachElevation

SpecAttach == InitAttach /\ [][NextAttach]_vars

\* ------------------------------- main -----------------------------------
\* writer.writerow([...]) then writer.writerows(rows)
csv_contents(rs) ==
    <<(<<"distance_m", "latitude", "longitude", "elevation_m">>)>> \o rs

\* the map: its centre rows[len(rows) // 2], then the polyline of (r[1], r[2])
map_contents(rs) ==
    LET mid == rs[(Len(rs) \div 2) + 1]
    IN  <<(<<mid[2], mid[3]>>)>> \o [i \in 1..Len(rs) |-> <<rs[i][2], rs[i][3]>>]

Init ==
    /\ pc = "check_api_key"
    /\ api_key \in {None, "", "key"}
    /\ html \in {None, "route.html"}
    /\ interval \in Intervals
    /\ coords3 = <<>> /\ points = <<>> /\ rows = <<>> /\ err = None
    /\ csv_file = NoFile /\ html_file = NoFile /\ calls = <<>>
    /\ lon = 0 /\ lat = 0 /\ utm_crs = None

\* if not args.api_key: raise ValueError(...)
CheckApiKey ==
    /\ pc = "check_api_key"
    /\ calls' = Append(calls, "check_api_key")
    /\ IF api_key \in {None, ""}
       THEN err' = "ValueError" /\ pc' = "raised"
       ELSE err' = err /\ pc' = "build_client"
    /\ UNCHANGED <<api_key, html, interval, coords3, points, rows,
                   csv_file, html_file, lon, lat, utm_crs>>

\* client = build_client(args.api_key)
BuildClient ==
    /\ pc = "build_client"
    /\ calls' = Append(calls, "build_client")
    /\ pc' = "get_route"
    /\ UNCHANGED <<api_key, html, interval, coords3, points, rows, err,
                   csv_file, html_file, lon, lat, utm_crs>>

\* coords3 = get_route(coords, client): the service answers with a geometry
GetRoute ==
    /\ pc = "get_route"
    /\ calls' = Append(calls, "get_route")
    /\ \E g \in Geometries : coords3' = g
    /\ pc' = "interpolate_points"
    /\ UNCHANGED <<api_key, html, interval, points, rows, err,
                   csv_file, html_file, lon, lat, utm_crs>>

\* ... or the request fails and client.directions raises
GetRouteRaises ==
    /\ pc = "get_route"
    /\ calls' = Append(calls, "get_route")
    /\ err' = "ApiError"
    /\ pc' = "raised"
    /\ UNCHANGED <<api_key, html, interval, coords3, points, rows,
                   csv_file, html_file, lon, lat, utm_crs>>

\* points = interpolate_points(coords3, interval_m=args.interval)
InterpolatePoints ==
    /\ pc = "interpolate_points"
    /\ calls' = Append(calls, "interpolate_points")
    /\ LET r == interpolate_points(coords3, interval)
       IN  IF r.err # None
           THEN err' = r.err /\ points' = points /\ pc' = "raised"
           ELSE err' = err /\ points' = r.pts /\ pc' = "attach_elevation"
    /\ UNCHANGED <<api_key, html, interval, coords3, rows,
                   csv_file, html_file, lon, lat, utm_crs>>

\* rows = attach_elevation(points, coords3)
AttachElevation ==
    /\ pc = "attach_elevation"
    /\ calls' = Append(calls, "attach_elevation")
    /\ \E r \in attach_elevation(points, coords3) : rows' = r
    /\ pc' = "write_csv"
    /\ UNCHANGED <<api_key, html, interval, coords3, points, err,
                   csv_file, html_file, lon, lat, utm_crs>>

\* write_csv(rows, args.out)
WriteCsv ==
    /\ pc = "write_csv"
    /\ calls' = Append(calls, "write_csv")
    /\ csv_file' = csv_contents(rows)
    /\ pc' = "after_write_csv"
    /\ UNCHANGED <<api_key, html, interval, coords3, points, rows, err,
                   html_file, lon, lat, utm_crs>>

\* ... or out_path.open("w") fails and no file is made
WriteCsvRaises ==
    /\ pc = "write_csv"
    /\ calls' = Append(calls, "write_csv")
    /\ err' = "OSError"
    /\ pc' = "raised"
    /\ UNCHANGED <<api_key, html, interval, coords3, points, rows,
                   csv_file, html_file, lon, lat, utm_crs>>

\* a driver that draws the map whether or not --html was given
CreateMapAlways ==
    /\ pc = "after_write_csv"
    /\ calls' = Append(calls, "create_map")
    /\ IF rows = <<>>
       THEN err' = "IndexError" /\ html_file' = html_file /\ pc' = "raised"
       ELSE err' = err /\ html_file' = map_contents(rows) /\ pc' = "done"
    /\ UNCHANGED <<api_key, html, interval, coords3, points, rows,
                   csv_file, lon, lat, utm_crs>>

\* if args.html: create_map(rows, args.html)
CreateMap ==
    /\ pc = "after_write_csv"
    /\ html \notin {None, ""}
    /\ calls' = Append(calls, "create_map")
    /\ IF rows = <<>>
       THEN err' = "IndexError" /\ html_file' = html_file /\ pc' = "raised"
       ELSE err' = err /\ html_file' = map_contents(rows) /\ pc' = "done"
    /\ UNCHANGED <<api_key, html, interval, coords3, points, rows,
                   csv_file, lon, lat, utm_crs>>

\* main returns without a map when --html was not given
Return ==
    /\ pc = "after_write_csv"
    /\ html \in {None, ""}
    /\ pc' = "done"
    /\ UNCHANGED <<api_key, html, interval, coords3, points, rows, err,
                   csv_file, html_file, calls, lon, lat, utm_crs>>

Next ==
    \/ CheckApiKey
    \/ BuildClient
    \/ GetRoute
    \/ GetRouteRaises
    \/ InterpolatePoints
    \/ AttachElevation
    \/ WriteCsv
    \/ WriteCsvRaises
    \/ CreateMap
    \/ Return

Spec == Init /\ [][Next]_vars

\* ======================= properties of get_utm_crs ======================
CrsReturned == pc = "get_utm_crs_returned"

\* C8: for every longitude in [-180, 180] and latitude in [-90, 90] the zone
\* floor((lon + 180) / 6) + 1 lies in 1..60 and the code selected is
\* 32600 + zone for latitude >= 0 and 32700 + zone for latitude < 0, hence
\* in 32601..32660 or 32701..32760.
C8_ZoneAndCodeInRange ==
    CrsReturned =>
        LET zone == ((lon + 180) \div 6) + 1
        IN  /\ zone \in 1..60
            /\ utm_crs = (IF lat >= 0 THEN 32600 + zone ELSE 32700 + zone)
            /\ utm_crs \in (32601..32660) \cup (32701..32760)

\* ==================== properties of interpolate_points ==================
InterpReturned == pc = "interpolate_points_returned"

\* a valid call: at least 2 vertices and a positive interval
ValidInput == Len(coords3) >= 2 /\ interval > 0

\* the planar polyline of a geometry, projected in the CRS of its first vertex
ProjectedLine(cs) ==
    [k \in 1..Len(cs) |->
        to_utm(get_utm_crs(cs[1][1], cs[1][2]), cs[k][1], cs[k][2])]

\* arc length of the polyline from its start to vertex k
RECURSIVE ArcTo(_, _)
ArcTo(line, k) ==
    IF k <= 1 THEN 0 ELSE ArcTo(line, k - 1) + SegLen(line[k - 1], line[k])

\* L: planar arc length of the projected route
RouteLength == ArcTo(ProjectedLine(coords3), Len(coords3))

\* C1: a valid call returns exactly floor(L / interval) + 1 samples, and
\* exactly one sample when L < interval (L = 0 included).
C1_SampleCount ==
    (InterpReturned /\ ValidInput) =>
        /\ err = None
        /\ Len(points) = (RouteLength \div interval) + 1
        /\ (RouteLength < interval => Len(points) = 1)

C1_Witness ==
    /\ InterpReturned /\ ValidInput
    /\ RouteLength % interval # 0
    /\ Len(points) = 2

\* C2: the distances of the samples of a valid call are 0, interval,
\* 2 * interval, ...: the first is 0, they increase strictly in steps of
\* exactly interval, and none exceeds floor(L / interval) * interval.
C2_DistancesAreMultiples ==
    (InterpReturned /\ ValidInput) =>
        /\ Len(points) >= 1
        /\ points[1][1] = 0
        /\ \A j \in 1..(Len(points) - 1) :
              /\ points[j][1] < points[j + 1][1]
              /\ points[j + 1][1] - points[j][1] = interval
        /\ \A j \in 1..Len(points) :
              points[j][1] <= (RouteLength \div interval) * interval

C2_Witness ==
    /\ InterpReturned /\ ValidInput
    /\ Len(points) = 3
    /\ points[3][1] = 2 * interval
    /\ interval = 5

\* C3 as stated: the distance of the last sample of a valid call is
\* strictly less than L.
C3_LastStrictlyBelowLength ==
    (InterpReturned /\ ValidInput /\ Len(points) >= 1) =>
        points[Len(points)][1] < RouteLength

\* C3 as amended: the distance of the last sample of a valid call is at
\* most L and more than L - interval; it equals L exactly when L is a
\* multiple of interval (L = 0 included).
C3_LastAtMostLength ==
    (InterpReturned /\ ValidInput) =>
        /\ Len(points) >= 1
        /\ points[Len(points)][1] <= RouteLength
        /\ RouteLength - points[Len(points)][1] < interval
        /\ (points[Len(points)][1] = RouteLength <=> RouteLength % interval = 0)

C3_Witness ==
    /\ InterpReturned /\ ValidInput
    /\ RouteLength > 0
    /\ Len(points) >= 2
    /\ points[Len(points)][1] = RouteLength

\* C4: for a geometry of fewer than 2 vertices the call signals a geometry
\* error (the subscript error on an empty list, the line constructor's
\* error on a single point), whatever the interval, and returns no samples.
C4_TooFewVerticesRaises ==
    (InterpReturned /\ Len(coords3) < 2) =>
        /\ err \in {"IndexError", "LineStringError"}
        /\ points = <<>>

C4_Witness ==
    /\ InterpReturned
    /\ Len(coords3) = 1
    /\ interval = 0
    /\ err = "LineStringError"

\* C5: for every interval <= 0 and any geometry the call signals an error
\* instead of returning a list.
C5_NonPositiveIntervalRaises ==
    (InterpReturned /\ interval <= 0) => err # None

\* the point p lies on the polyline at arc length s from its start
OnCurveAt(line, p, s) ==
    \E k \in 1..(Len(line) - 1) :
        LET a == line[k]
            b == line[k + 1]
            r == s - ArcTo(line, k)
        IN  /\ 0 <= r /\ r <= SegLen(a, b)
            /\ (b[1] - a[1]) * (p[2] - a[2]) = (b[2] - a[2]) * (p[1] - a[1])
            /\ (b[1] - a[1]) * (p[1] - a[1]) + (b[2] - a[2]) * (p[2] - a[2]) >= 0
            /\ (p[1] - a[1]) * (p[1] - a[1]) + (p[2] - a[2]) * (p[2] - a[2]) = r * r

\* C9: in a valid call, sample i, projected with the CRS of the first
\* vertex, is the point of the piecewise-linear curve through the projected
\* vertices at arc length i * interval; sample 0 has the coordinates of the
\* first vertex.
C9_SamplesLieOnCurve ==
    (InterpReturned /\ ValidInput) =>
        LET crs == get_utm_crs(coords3[1][1], coords3[1][2])
            line == ProjectedLine(coords3)
        IN  /\ Len(points) >= 1
            /\ points[1][2] = coords3[1][1]
            /\ points[1][3] = coords3[1][2]
            /\ \A j \in 1..Len(points) :
                  OnCurveAt(line, to_utm(crs, points[j][2], points[j][3]),
                            (j - 1) * interval)

\* a route whose vertices lie in two zones, with a sample strictly inside
\* its second, diagonal segment
C9_Witness ==
    /\ InterpReturned /\ ValidInput
    /\ Len(coords3) = 3
    /\ utm_zone(coords3[1][1]) # utm_zone(coords3[3][1])
    /\ coords3[3][1] # coords3[2][1] /\ coords3[3][2] # coords3[2][2]
    /\ Len(points) = 4
    /\ <<points[3][2], points[3][3]>> # <<coords3[2][1], coords3[2][2]>>
    /\ <<points[3][2], points[3][3]>> # <<coords3[3][1], coords3[3][2]>>

\* ==================== properties of attach_elevation ====================
AttachReturned == pc = "attach_elevation_returned"

\* vertex j of the geometry is at the smallest distance from point p
IsNearest(cs, p, j) ==
    \A k \in 1..Len(cs) : Dist2(p[2], p[3], cs[j]) <= Dist2(p[2], p[3], cs[k])

\* C6: the elevation of every output record is that of an original vertex
\* at the smallest Euclidean distance (in degrees) from the resampled point;
\* so it is the elevation of some input vertex.
C6_ElevationOfNearestVertex ==
    AttachReturned =>
        \A i \in 1..Len(rows) :
            /\ i <= Len(points)
            /\ \E j \in 1..Len(coords3) :
                  IsNearest(coords3, points[i], j) /\ rows[i][4] = coords3[j][3]
            /\ rows[i][4] \in {coords3[j][3] : j \in 1..Len(coords3)}

\* a point whose only nearest vertex is the second of two vertices with
\* different elevations
C6_Witness ==
    /\ AttachReturned
    /\ Len(coords3) = 2 /\ Len(points) >= 1 /\ Len(rows) >= 1
    /\ coords3[1][3] # coords3[2][3]
    /\ IsNearest(coords3, points[1], 2)
    /\ ~IsNearest(coords3, points[1], 1)
    /\ rows[1][4] = coords3[2][3]

\* C7: the output has the length and the order of the input; record i is
\* (distance_i, lat_i, lon_i, elevation) with the three input fields
\* unchanged.
C7_RecordsFollowPoints ==
    AttachReturned =>
        /\ Len(rows) = Len(points)
        /\ \A i \in 1..Len(points) :
              /\ Len(rows[i]) = 4
              /\ rows[i][1] = points[i][1]
              /\ rows[i][2] = points[i][3]
              /\ rows[i][3] = points[i][2]

C7_Witness ==
    /\ AttachReturned
    /\ Len(points) = 2 /\ Len(rows) = 2
    /\ points[1] # points[2]
    /\ points[1][2] # points[1][3]
    /\ rows[1][2] = points[1][3] /\ rows[1][3] = points[1][2]

\* ========================== properties of main ==========================
MainOrder ==
    <<"check_api_key", "build_client", "get_route", "interpolate_points",
      "attach_elevation", "write_csv", "create_map">>

\* C10: the steps of main run in the order key check, route fetch,
\* interpolate_points, attach_elevation, write_csv and, only with --html,
\* create_map; when the key is missing or the fetch, interpolate_points or
\* attach_elevation raises, neither the CSV nor the map is written.
C10_OrderAndAllOrNothing ==
    /\ Len(calls) <= Len(MainOrder)
    /\ \A i \in 1..Len(calls) : calls[i] = MainOrder[i]
    /\ (Len(calls) = 7 => html = "route.html")
    /\ (csv_file # NoFile => Len(calls) >= 6)
    /\ (html_file # NoFile => (Len(calls) = 7 /\ csv_file # NoFile))
    /\ (pc = "done" => Len(calls) = (IF html = "route.html" THEN 7 ELSE 6))
    /\ (pc = "raised" =>
          /\ err # None
          /\ (Len(calls) <= 5 => (csv_file = NoFile /\ html_file = NoFile)))

\* a run that ends in interpolate_points with nothing written
C10_Witness ==
    /\ pc = "raised"
    /\ calls = SubSeq(MainOrder, 1, 4)
    /\ err = "ZeroDivisionError"
    /\ html = "route.html"
    /\ csv_file = NoFile /\ html_file = NoFile

====
